---- MODULE Spec2Model ----
(***************************************************************************)
(* Model of seller.py: synchronisation of the Casio remnants file with an  *)
(* Ozon seller account (offer-id pagination, stock / price derivation,     *)
(* chunked upload, top-level error handler).                               *)
(*                                                                         *)
(* Python strings are modelled as sequences of one-character strings, so   *)
(* that str(), int(), split() and re.sub() are computed, not assumed.      *)
(* A spreadsheet cell is a tagged value: a string cell Sv(s) or a numeric  *)
(* cell Iv(n) (pandas keeps numeric cells as numbers).                     *)
(* Column names: Kod = "Код", Kolichestvo = "Количество", Tsena = "Цена".  *)
(***************************************************************************)
EXTENDS Integers, Sequences, FiniteSets, TLC

VARIABLES
    pc,             \* position of the running function
    catalog,        \* environment: the offer ids listed on the marketplace
    last_id,        \* get_offer_ids: cursor sent with the next page request
    product_list,   \* get_offer_ids: items accumulated so far
    total,          \* get_offer_ids: total reported by the last page
    looped,         \* a page left items to fetch and the loop went round (history)
    input_ids,      \* the offer-id list as it was when it was created (history)
    offer_ids,      \* the offer-id list object (mutated by create_stocks)
    watch_remnants, \* rows of the remnants file
    stocks,         \* result of create_stocks
    prices,         \* result of create_prices
    idx,            \* number of batches of the current loop already submitted
    attempts,       \* every update_stocks / update_price call made (history)
    applied,        \* environment: batches the marketplace accepted
    printed,        \* message printed by main's handler ("" when none)
    lst,            \* divide: the list argument
    n,              \* divide: the part size
    i,              \* divide: the generator's loop variable
    chunks          \* divide: the parts yielded so far

vars == <<pc, catalog, last_id, product_list, total, looped, input_ids,
          offer_ids, watch_remnants, stocks, prices, idx, attempts, applied,
          printed, lst, n, i, chunks>>

(***************************************************************************)
(* Bounds of the model.                                                    *)
(***************************************************************************)
MaxOffers == 3      \* longest offer-id list given to create_stocks / create_prices
MaxCatalog == 2     \* longest enumerated catalog of the marketplace
MaxRows == 2        \* most remnant rows given to create_stocks / create_prices
MaxMainRows == 1    \* most remnant rows of the file downloaded by main
BulkLen == 201      \* length of the one long catalog (three stock batches)
MaxLen == 4         \* longest list given to divide
MaxN == 3           \* largest part size given to divide

(***************************************************************************)
(* Program constants.                                                      *)
(***************************************************************************)
PageLimit == 1000
StocksPerBatch == 100
PricesPerBatch == 900

Min(a, b) == IF a < b THEN a ELSE b

Range(s) == {s[k] : k \in DOMAIN s}

RECURSIVE SeqsUpTo(_, _)
SeqsUpTo(S, len) ==
    IF len = 0 THEN {<<>>}
    ELSE LET shorter == SeqsUpTo(S, len - 1)
         IN  shorter \cup {Append(s, x) : s \in {t \in shorter : Len(t) = len - 1}, x \in S}

(***************************************************************************)
(* Cell values and Python conversions.                                     *)
(***************************************************************************)
Sv(s) == [t |-> "str", s |-> s, n |-> 0]
Iv(k) == [t |-> "int", s |-> <<>>, n |-> k]

Digits == <<"0", "1", "2", "3", "4", "5", "6", "7", "8", "9">>
IsDigit(c) == c \in Range(Digits)
DigitVal(c) == (CHOOSE d \in 1..10 : Digits[d] = c) - 1

RECURSIVE NatToStr(_)
NatToStr(k) ==
    IF k < 10 THEN <<Digits[k + 1]>>
    ELSE NatToStr(k \div 10) \o <<Digits[(k % 10) + 1]>>

\* str(v): a string is returned as is, an integer in decimal.
Str(v) ==
    IF v.t = "str" THEN v.s
    ELSE IF v.n < 0 THEN <<"-">> \o NatToStr(-v.n) ELSE NatToStr(v.n)

RECURSIVE DigitsValue(_)
DigitsValue(s) ==
    IF s = <<>> THEN 0
    ELSE 10 * DigitsValue(SubSeq(s, 1, Len(s) - 1)) + DigitVal(s[Len(s)])

\* int(v): an integer is returned as is; a string must be an optional sign
\* followed by one or more digits, anything else raises ValueError.
\* (The cell alphabet holds no white space and no underscore.)
PyInt(v) ==
    IF v.t = "int" THEN [raised |-> FALSE, val |-> v.n]
    ELSE LET signed == v.s # <<>> /\ v.s[1] \in {"+", "-"}
             body   == IF signed THEN Tail(v.s) ELSE v.s
         IN  IF body = <<>> \/ \E k \in DOMAIN body : ~IsDigit(body[k])
             THEN [raised |-> TRUE, val |-> 0]
             ELSE [raised |-> FALSE,
                   val |-> IF signed /\ v.s[1] = "-" THEN -DigitsValue(body)
                           ELSE DigitsValue(body)]

(***************************************************************************)
(* List helpers.                                                           *)
(***************************************************************************)
\* x in l
InList(x, l) == x \in Range(l)

RemoveNothing(l, x) == l

RemoveLast(l, x) == SubSeq(l, 1, Len(l) - 1)

\* l.remove(x), for x in l: drops the first element equal to x.
Remove(l, x) ==
    LET p == CHOOSE k \in DOMAIN l : l[k] = x /\ \A j \in 1..(k - 1) : l[j] # x
    IN  SubSeq(l, 1, p - 1) \o SubSeq(l, p + 1, Len(l))

SliceShort(l, a, b) == SubSeq(l, a + 1, Min(b, Len(l)) - 1)

\* l[a:b] for 0 <= a <= b
Slice(l, a, b) == SubSeq(l, a + 1, Min(b, Len(l)))

(***************************************************************************)
(* create_stocks                                                           *)
(***************************************************************************)
StockOfTenForMany(watch) ==
    LET count == Str(watch.Kolichestvo)
    IN  IF count = <<">", "1", "0">> THEN [raised |-> FALSE, val |-> 10]
        ELSE IF count = <<"1">> THEN [raised |-> FALSE, val |-> 0]
        ELSE PyInt(watch.Kolichestvo)

\* The stock of a matched row; raised when int() raises ValueError.
StockOf(watch) ==
    LET count == Str(watch.Kolichestvo)
    IN  IF count = <<">", "1", "0">> THEN [raised |-> FALSE, val |-> 100]
        ELSE IF count = <<"1">> THEN [raised |-> FALSE, val |-> 0]
        ELSE PyInt(watch.Kolichestvo)

\* The first loop of create_stocks, from row k on.
RECURSIVE CreateStocksLoop(_, _, _, _)
CreateStocksLoop(rem, k, ids, acc) ==
    IF k > Len(rem) THEN [raised |-> FALSE, offer_ids |-> ids, stocks |-> acc]
    ELSE LET watch == rem[k]
             code  == Str(watch.Kod)
         IN  IF InList(code, ids)
             THEN LET st == StockOf(watch)
                  IN  IF st.raised
                      THEN [raised |-> TRUE, offer_ids |-> ids, stocks |-> acc]
                      ELSE CreateStocksLoop(rem, k + 1, Remove(ids, code),
                               Append(acc, [offer_id |-> code, stock |-> st.val]))
             ELSE CreateStocksLoop(rem, k + 1, ids, acc)

Reverse(s) == [k \in 1..Len(s) |-> s[Len(s) + 1 - k]]

ZeroFillReversed(ids) == [k \in 1..Len(ids) |-> [offer_id |-> Reverse(ids)[k], stock |-> 0]]

\* The second loop of create_stocks: what is left of the list, with stock 0.
ZeroFill(ids) == [k \in 1..Len(ids) |-> [offer_id |-> ids[k], stock |-> 0]]

\* create_stocks(watch_remnants, offer_ids): the returned list (when it
\* returns) and the offer-id list as the call leaves it.
CreateStocks(rem, ids) ==
    LET r == CreateStocksLoop(rem, 1, ids, <<>>)
    IN  IF r.raised THEN r
        ELSE [raised |-> FALSE, offer_ids |-> r.offer_ids,
              stocks |-> r.stocks \o ZeroFill(r.offer_ids)]

(***************************************************************************)
(* price_conversion, create_prices                                         *)
(***************************************************************************)
\* s.split(".")[0]
BeforeDot(s) ==
    IF \E k \in DOMAIN s : s[k] = "."
    THEN SubSeq(s, 1, (CHOOSE k \in DOMAIN s : s[k] = "." /\ \A j \in 1..(k - 1) : s[j] # ".") - 1)
    ELSE s

\* re.sub("[^0-9]", "", s)
OnlyDigits(s) == SelectSeq(s, IsDigit)

\* price_conversion(price): raises AttributeError when price is no string.
PriceConversion(price) ==
    IF price.t # "str" THEN [raised |-> TRUE, val |-> <<>>]
    ELSE [raised |-> FALSE, val |-> OnlyDigits(BeforeDot(price.s))]

PriceWantedAlways(watch, ids) == TRUE

\* The test of create_prices' loop.
PriceWanted(watch, ids) == InList(Str(watch.Kod), ids)

RECURSIVE CreatePricesLoop(_, _, _, _)
CreatePricesLoop(rem, k, ids, acc) ==
    IF k > Len(rem) THEN [raised |-> FALSE, prices |-> acc]
    ELSE LET watch == rem[k]
         IN  IF PriceWanted(watch, ids)
             THEN LET pr == PriceConversion(watch.Tsena)
                  IN  IF pr.raised THEN [raised |-> TRUE, prices |-> acc]
                      ELSE CreatePricesLoop(rem, k + 1, ids,
                               Append(acc, [auto_action_enabled |-> "UNKNOWN",
                                            currency_code |-> "RUB",
                                            offer_id |-> Str(watch.Kod),
                                            old_price |-> "0",
                                            price |-> pr.val]))
             ELSE CreatePricesLoop(rem, k + 1, ids, acc)

\* create_prices(watch_remnants, offer_ids)
CreatePrices(rem, ids) == CreatePricesLoop(rem, 1, ids, <<>>)

(***************************************************************************)
(* divide                                                                  *)
(***************************************************************************)
RECURSIVE DivideFrom(_, _, _)
DivideFrom(l, size, k) ==
    IF k >= Len(l) THEN <<>>
    ELSE <<Slice(l, k, k + size)>> \o DivideFrom(l, size, k + size)

\* list(divide(l, size))
Divide(l, size) == DivideFrom(l, size, 0)

(***************************************************************************)
(* Inputs.                                                                 *)
(***************************************************************************)
CatalogIds == {<<"A">>, <<"B">>, <<"7">>}

Codes == {Sv(<<"A">>), Iv(7)}

Quantities == {Sv(<<">", "1", "0">>), Sv(<<"1">>), Sv(<<"2", "3">>),
               Sv(<<"-", "5">>), Sv(<<"5", "+">>), Iv(1)}

PriceA == Sv(<<"1", "'", "0", "0", "0", ".", "0", "0">>)

RawPrices == {PriceA, Sv(<<"5", "9", ".", "9", "0">>), Iv(123)}

\* Rows given to create_stocks, which does not read the price.
StockRows == [Kod : Codes, Kolichestvo : Quantities, Tsena : {PriceA}]

\* Rows given to create_prices, which does not read the quantity.
PriceRows == [Kod : Codes, Kolichestvo : {Sv(<<"1">>)}, Tsena : RawPrices]

\* Rows of the file main downloads.
MainRows == [Kod : Codes,
             Kolichestvo : {Sv(<<">", "1", "0">>), Sv(<<"5", "+">>)},
             Tsena : {PriceA, Iv(123)}]

OfferLists == SeqsUpTo(CatalogIds, MaxOffers)

\* One long catalog "1", "2", ..., so that the uploads take several batches.
BulkCatalog == [k \in 1..BulkLen |-> NatToStr(k)]

\* The catalogs the marketplace may hold. An offer id may be listed twice
\* (nothing in the client rules it out).
Catalogs == SeqsUpTo(CatalogIds, MaxCatalog) \cup {BulkCatalog}

DivideElems == {1, 2}

(***************************************************************************)
(* The marketplace and the handler of main.                                *)
(***************************************************************************)
\* The item at position p of the catalog.
Item(p) == [product_id |-> p, offer_id |-> catalog[p]]

\* Page sizes the server may answer with at a cursor: a truthful server
\* sends at least one item while items remain, at most "limit" of them.
PageSizes(cursor) ==
    IF cursor >= Len(catalog) THEN {0}
    ELSE 1..Min(PageLimit, Len(catalog) - cursor)

\* get_product_list(last_id, ...) answered with a page of k items.
GetProductList(cursor, k) ==
    [items   |-> [j \in 1..k |-> Item(cursor + j)],
     total   |-> Len(catalog),
     last_id |-> cursor + k]

\* Exceptions a request may raise.
RequestErrors == {"ReadTimeout", "ConnectionError", "HTTPError"}

\* The except clauses of main.
Handler(error) ==
    CASE error = "ReadTimeout" -> "Prevysheno vremya ozhidaniya..."
      [] error = "ConnectionError" -> "Oshibka soedineniya"
      [] OTHER -> "ERROR_2"

LoopDoneOneShort(tot, items) == tot <= Len(items) + 1

\* The exit test of get_offer_ids' loop.
LoopDone(tot, items) == tot = Len(items)

SkipBatch(k) == k + 2

\* The for loops of main go on to the next batch.
NextBatch(k) == k + 1

StockBatches == Divide(stocks, StocksPerBatch)
PriceBatches == Divide(prices, PricesPerBatch)

(***************************************************************************)
(* Initial states.                                                         *)
(***************************************************************************)
Idle ==
    /\ catalog = <<>>
    /\ last_id = 0
    /\ product_list = <<>>
    /\ total = -1
    /\ looped = FALSE
    /\ stocks = <<>>
    /\ prices = <<>>
    /\ idx = 0
    /\ attempts = <<>>
    /\ applied = <<>>
    /\ printed = ""

NoDivide == lst = <<>> /\ n = 1 /\ i = 0 /\ chunks = <<>>

\* main() about to call get_offer_ids. last_id 0 is the empty cursor "",
\* total -1 is "not yet assigned".
Init ==
    /\ pc = "fetch"
    /\ catalog \in Catalogs
    /\ last_id = 0
    /\ product_list = <<>>
    /\ total = -1
    /\ looped = FALSE
    /\ input_ids = <<>>
    /\ offer_ids = <<>>
    /\ watch_remnants = <<>>
    /\ stocks = <<>>
    /\ prices = <<>>
    /\ idx = 0
    /\ attempts = <<>>
    /\ applied = <<>>
    /\ printed = ""
    /\ NoDivide

\* create_stocks about to be called on any rows and any offer-id list.
InitStocks ==
    /\ pc = "create_stocks"
    /\ watch_remnants \in SeqsUpTo(StockRows, MaxRows)
    /\ offer_ids \in OfferLists
    /\ input_ids = offer_ids
    /\ Idle
    /\ NoDivide

\* create_prices about to be called on any rows and any offer-id list.
InitPrices ==
    /\ pc = "create_prices"
    /\ watch_remnants \in SeqsUpTo(PriceRows, MaxRows)
    /\ offer_ids \in OfferLists
    /\ input_ids = offer_ids
    /\ Idle
    /\ NoDivide

\* divide(lst, n) about to be iterated.
InitDivide ==
    /\ pc = "divide"
    /\ lst \in SeqsUpTo(DivideElems, MaxLen)
    /\ n \in 1..MaxN
    /\ i = 0
    /\ chunks = <<>>
    /\ input_ids = <<>>
    /\ offer_ids = <<>>
    /\ watch_remnants = <<>>
    /\ Idle

(***************************************************************************)
(* Actions of main.                                                        *)
(***************************************************************************)
divideVars == <<lst, n, i, chunks>>
pageVars == <<last_id, product_list, total, looped>>
uploadVars == <<idx, attempts, applied>>

\* An exception reaches the handler of main: it prints and main returns.
Raise(error) ==
    /\ pc' = "failed"
    /\ printed' = Handler(error)

\* One pass of get_offer_ids' loop whose request succeeds; on the last pass
\* the offer ids are extracted and get_offer_ids returns to main.
GetOfferIdsPage ==
    /\ pc = "fetch"
    /\ \E k \in PageSizes(last_id) :
         LET some_prod == GetProductList(last_id, k)
             extended  == product_list \o some_prod.items
         IN  /\ product_list' = extended
             /\ total' = some_prod.total
             /\ last_id' = some_prod.last_id
             /\ IF LoopDone(some_prod.total, extended)
                THEN /\ offer_ids' = [j \in 1..Len(extended) |-> extended[j].offer_id]
                     /\ input_ids' = offer_ids'
                     /\ pc' = "download"
                ELSE UNCHANGED <<offer_ids, input_ids, pc>>
             /\ looped' = (looped \/ ~LoopDone(some_prod.total, extended))
    /\ UNCHANGED <<catalog, watch_remnants, stocks, prices, uploadVars, printed, divideVars>>

\* A page request fails (raise_for_status or the transport).
GetOfferIdsFail ==
    /\ pc = "fetch"
    /\ \E error \in RequestErrors : Raise(error)
    /\ UNCHANGED <<catalog, pageVars, input_ids, offer_ids,
                   watch_remnants, stocks, prices, uploadVars, divideVars>>

\* download_stock() returns the rows of the file.
DownloadStock ==
    /\ pc = "download"
    /\ watch_remnants' \in SeqsUpTo(MainRows, MaxMainRows)
    /\ pc' = "create_stocks"
    /\ UNCHANGED <<catalog, pageVars, input_ids, offer_ids, stocks, prices,
                   uploadVars, printed, divideVars>>

\* download_stock() raises (transport, archive or spreadsheet).
DownloadStockFail ==
    /\ pc = "download"
    /\ \E error \in RequestErrors \cup {"BadZipFile"} : Raise(error)
    /\ UNCHANGED <<catalog, pageVars, input_ids, offer_ids, watch_remnants, stocks,
                   prices, uploadVars, divideVars>>

\* stocks = create_stocks(watch_remnants, offer_ids), then the list of
\* batches is built; a quantity that is no integer raises ValueError.
MainCreateStocks ==
    /\ pc = "create_stocks"
    /\ LET r == CreateStocks(watch_remnants, offer_ids)
       IN  /\ offer_ids' = r.offer_ids
           /\ IF r.raised
              THEN Raise("ValueError") /\ UNCHANGED <<stocks, idx>>
              ELSE /\ stocks' = r.stocks
                   /\ idx' = 0
                   /\ pc' = "update_stocks"
                   /\ UNCHANGED printed
    /\ UNCHANGED <<catalog, pageVars, input_ids, watch_remnants, prices, attempts,
                   applied, divideVars>>

\* update_stocks(some_stock, ...) for the next batch, accepted.
UpdateStocks ==
    /\ pc = "update_stocks"
    /\ idx < Len(StockBatches)
    /\ LET call == [kind |-> "stocks", batch |-> idx + 1, payload |-> StockBatches[idx + 1]]
       IN  /\ attempts' = Append(attempts, call)
           /\ applied' = Append(applied, call)
    /\ idx' = NextBatch(idx)
    /\ UNCHANGED <<pc, catalog, pageVars, input_ids, offer_ids, watch_remnants, stocks,
                   prices, printed, divideVars>>

\* update_stocks(some_stock, ...) for the next batch raises.
UpdateStocksFail ==
    /\ pc = "update_stocks"
    /\ idx < Len(StockBatches)
    /\ attempts' = Append(attempts,
           [kind |-> "stocks", batch |-> idx + 1, payload |-> StockBatches[idx + 1]])
    /\ \E error \in RequestErrors : Raise(error)
    /\ UNCHANGED <<catalog, pageVars, input_ids, offer_ids, watch_remnants, stocks,
                   prices, idx, applied, divideVars>>

\* After the last stock batch: prices = create_prices(watch_remnants,
\* offer_ids) on the same list object; a price that is no string raises
\* AttributeError.
MainCreatePrices ==
    /\ pc = "update_stocks"
    /\ idx = Len(StockBatches)
    /\ LET r == CreatePrices(watch_remnants, offer_ids)
       IN  IF r.raised
           THEN Raise("AttributeError") /\ UNCHANGED <<prices, idx>>
           ELSE /\ prices' = r.prices
                /\ idx' = 0
                /\ pc' = "update_price"
                /\ UNCHANGED printed
    /\ UNCHANGED <<catalog, pageVars, input_ids, offer_ids, watch_remnants, stocks,
                   attempts, applied, divideVars>>

\* update_price(some_price, ...) for the next batch, accepted.
UpdatePrice ==
    /\ pc = "update_price"
    /\ idx < Len(PriceBatches)
    /\ LET call == [kind |-> "prices", batch |-> idx + 1, payload |-> PriceBatches[idx + 1]]
       IN  /\ attempts' = Append(attempts, call)
           /\ applied' = Append(applied, call)
    /\ idx' = NextBatch(idx)
    /\ UNCHANGED <<pc, catalog, pageVars, input_ids, offer_ids, watch_remnants, stocks,
                   prices, printed, divideVars>>

\* update_price(some_price, ...) for the next batch raises.
UpdatePriceFail ==
    /\ pc = "update_price"
    /\ idx < Len(PriceBatches)
    /\ attempts' = Append(attempts,
           [kind |-> "prices", batch |-> idx + 1, payload |-> PriceBatches[idx + 1]])
    /\ \E error \in RequestErrors : Raise(error)
    /\ UNCHANGED <<catalog, pageVars, input_ids, offer_ids, watch_remnants, stocks,
                   prices, idx, applied, divideVars>>

\* After the last price batch main returns.
MainReturn ==
    /\ pc = "update_price"
    /\ idx = Len(PriceBatches)
    /\ pc' = "done"
    /\ UNCHANGED <<catalog, pageVars, input_ids, offer_ids, watch_remnants, stocks,
                   prices, uploadVars, printed, divideVars>>

Next ==
    \/ GetOfferIdsPage
    \/ GetOfferIdsFail
    \/ DownloadStock
    \/ DownloadStockFail
    \/ MainCreateStocks
    \/ UpdateStocks
    \/ UpdateStocksFail
    \/ MainCreatePrices
    \/ UpdatePrice
    \/ UpdatePriceFail
    \/ MainReturn

\* A run of main.
Spec == Init /\ [][Next]_vars

\* get_offer_ids alone, every page request succeeding; the loop keeps
\* running while it can.
FairSpec == Init /\ [][GetOfferIdsPage]_vars /\ WF_vars(GetOfferIdsPage)

(***************************************************************************)
(* The pure functions, each applied to inputs drawn in the initial state.  *)
(***************************************************************************)
restOfMain == <<catalog, pageVars, stocks, prices, uploadVars, printed>>

CallCreateStocks ==
    /\ pc = "create_stocks"
    /\ LET r == CreateStocks(watch_remnants, offer_ids)
       IN  /\ offer_ids' = r.offer_ids
           /\ stocks' = r.stocks
           /\ pc' = IF r.raised THEN "raised" ELSE "returned"
    /\ UNCHANGED <<catalog, pageVars, input_ids, watch_remnants, prices, uploadVars,
                   printed, divideVars>>

SpecStocks == InitStocks /\ [][CallCreateStocks]_vars

CallCreatePrices ==
    /\ pc = "create_prices"
    /\ LET r == CreatePrices(watch_remnants, offer_ids)
       IN  /\ prices' = r.prices
           /\ pc' = IF r.raised THEN "raised" ELSE "returned"
    /\ UNCHANGED <<catalog, pageVars, input_ids, offer_ids, watch_remnants, stocks,
                   uploadVars, printed, divideVars>>

SpecPrices == InitPrices /\ [][CallCreatePrices]_vars

\* One pass of divide's loop: the next part is yielded.
DivideYield ==
    /\ pc = "divide"
    /\ i < Len(lst)
    /\ chunks' = Append(chunks, Slice(lst, i, i + n))
    /\ i' = i + n
    /\ UNCHANGED <<pc, lst, n, input_ids, offer_ids, watch_remnants, restOfMain>>

\* range() is exhausted: the generator ends.
DivideEnd ==
    /\ pc = "divide"
    /\ i >= Len(lst)
    /\ pc' = "divided"
    /\ UNCHANGED <<divideVars, input_ids, offer_ids, watch_remnants, restOfMain>>

NextDivide == DivideYield \/ DivideEnd

SpecDivide == InitDivide /\ [][NextDivide]_vars

(***************************************************************************)
(* Vocabulary of the properties.                                           *)
(***************************************************************************)
Count(x, s) == Cardinality({k \in DOMAIN s : s[k] = x})

Distinct(s) == \A j, k \in DOMAIN s : j # k => s[j] # s[k]

RECURSIVE Concat(_)
Concat(ss) == IF ss = <<>> THEN <<>> ELSE Head(ss) \o Concat(Tail(ss))

OfferIdsOf(entries) == [k \in DOMAIN entries |-> entries[k].offer_id]

\* The identifier of every remnant row, read as a string.
RowIds == [k \in DOMAIN watch_remnants |-> Str(watch_remnants[k].Kod)]

Positions(s) == [k \in DOMAIN s |-> k]

\* Row k is matched: the list passed in holds its identifier more often than
\* earlier rows carry it.
Matched(k) ==
    Count(RowIds[k], input_ids) > Cardinality({j \in 1..(k - 1) : RowIds[j] = RowIds[k]})

\* Position p of the list passed in is left to the zero fill: at least as
\* many earlier positions hold the same identifier as rows carry it.
LeftOver(p) ==
    Cardinality({q \in 1..(p - 1) : input_ids[q] = input_ids[p]}) >= Count(input_ids[p], RowIds)

MatchedRows == SelectSeq(Positions(watch_remnants), Matched)
LeftOverPositions == SelectSeq(Positions(input_ids), LeftOver)

\* The integer a quantity denotes: the one whose decimal form it is.
IntegerValue(q) == CHOOSE v \in -99..100 : Str(Iv(v)) = Str(q)

ExpectedStock(q) ==
    IF Str(q) = <<">", "1", "0">> THEN 100
    ELSE IF Str(q) = <<"1">> THEN 0
    ELSE IntegerValue(q)

\* The entries handed to update_stocks / update_price, in call order.
RECURSIVE Payloads(_, _)
Payloads(calls, kind) ==
    IF calls = <<>> THEN <<>>
    ELSE (IF Head(calls).kind = kind THEN Head(calls).payload ELSE <<>>)
         \o Payloads(Tail(calls), kind)

CallsOf(kind) == SelectSeq(attempts, LAMBDA c : c.kind = kind)

IsPrefix(s, t) == Len(s) <= Len(t) /\ SubSeq(t, 1, Len(s)) = s

(***************************************************************************)
(* C1: for pairwise distinct offer ids, the list create_stocks returns     *)
(* holds exactly one entry per offer id of the list passed in, and no      *)
(* entry with any other id, whatever the rows (repeated ids included).     *)
(***************************************************************************)
C1_OneEntryPerOfferId ==
    (pc = "returned" /\ Distinct(input_ids)) =>
        /\ \A id \in Range(input_ids) : Count(id, OfferIdsOf(stocks)) = 1
        /\ \A k \in DOMAIN stocks : stocks[k].offer_id \in Range(input_ids)

\* Two rows repeat a listed id and another listed id is in no row.
C1_Witness ==
    /\ pc = "returned"
    /\ Distinct(input_ids)
    /\ Len(RowIds) = 2 /\ RowIds[1] = RowIds[2] /\ RowIds[1] \in Range(input_ids)
    /\ \E id \in Range(input_ids) : id \notin Range(RowIds)

(***************************************************************************)
(* C3: every entry create_stocks returns has stock >= 0 (the claim as      *)
(* stated, negative quantities included).                                  *)
(***************************************************************************)
C3_StockNonNegative ==
    pc = "returned" => \A k \in DOMAIN stocks : stocks[k].stock >= 0

(***************************************************************************)
(* C7: the entry of a matched row has stock 100 for ">10", 0 for "1" and   *)
(* the integer value of the quantity otherwise; every offer id of the      *)
(* list matching no row has stock 0.                                       *)
(***************************************************************************)
C7_StockRule ==
    pc = "returned" =>
        /\ Len(stocks) = Len(MatchedRows) + Len(LeftOverPositions)
        /\ \A j \in DOMAIN MatchedRows :
              /\ stocks[j].offer_id = RowIds[MatchedRows[j]]
              /\ stocks[j].stock = ExpectedStock(watch_remnants[MatchedRows[j]].Kolichestvo)
        /\ \A j \in DOMAIN LeftOverPositions :
              /\ stocks[Len(MatchedRows) + j].offer_id = input_ids[LeftOverPositions[j]]
              /\ stocks[Len(MatchedRows) + j].stock = 0

\* A ">10" row and an integer row are matched, an offer id is in no row.
C7_Witness ==
    /\ pc = "returned"
    /\ \E j, k \in DOMAIN MatchedRows :
          /\ Str(watch_remnants[MatchedRows[j]].Kolichestvo) = <<">", "1", "0">>
          /\ Str(watch_remnants[MatchedRows[k]].Kolichestvo) = <<"2", "3">>
          /\ stocks[k].stock = 23

(***************************************************************************)
(* C9: the returned list is the matched rows in remnants order, then the   *)
(* unmatched offer ids in the order of the list passed in.                 *)
(***************************************************************************)
C9_ResultOrder ==
    pc = "returned" =>
        OfferIdsOf(stocks) =
            [j \in DOMAIN MatchedRows |-> RowIds[MatchedRows[j]]]
            \o [j \in DOMAIN LeftOverPositions |-> input_ids[LeftOverPositions[j]]]

\* One matched row is followed by two distinct unmatched offer ids.
C9_Witness ==
    /\ pc = "returned"
    /\ Len(MatchedRows) >= 1
    /\ Len(LeftOverPositions) >= 2
    /\ input_ids[LeftOverPositions[1]] # input_ids[LeftOverPositions[2]]

(***************************************************************************)
(* C4: every Price Update create_prices emits carries the id of a remnant  *)
(* row that is also in the offer-id list; an offer id of the list that is  *)
(* in no row gets no Price Update.                                         *)
(***************************************************************************)
C4_PricesOnlyForBoth ==
    pc = "returned" =>
        /\ \A k \in DOMAIN prices :
              prices[k].offer_id \in Range(RowIds) \cap Range(offer_ids)
        /\ \A id \in Range(offer_ids) \ Range(RowIds) :
              Count(id, OfferIdsOf(prices)) = 0

\* A price is emitted, a listed id has no row and a row's id is not listed.
C4_Witness ==
    /\ pc = "returned"
    /\ prices # <<>>
    /\ Range(offer_ids) \ Range(RowIds) # {}
    /\ Range(RowIds) \ Range(offer_ids) # {}

(***************************************************************************)
(* C5: divide(lst, n) yields consecutive slices whose concatenation is     *)
(* lst, each of 1..n elements, all but the last of exactly n; lst is left  *)
(* unchanged and an empty lst yields nothing.                              *)
(***************************************************************************)
C5_Slices ==
    /\ Concat(chunks) = SubSeq(lst, 1, Min(i, Len(lst)))
    /\ \A k \in DOMAIN chunks :
          /\ Len(chunks[k]) \in 1..n
          /\ k < Len(chunks) => Len(chunks[k]) = n
    /\ pc = "divided" =>
          /\ Concat(chunks) = lst
          /\ lst = <<>> => chunks = <<>>

C6_Returned ==
    /\ (total >= 0 /\ Len(product_list) = total) => pc # "fetch"
    /\ pc = "download" =>
          /\ Len(offer_ids) = total
          /\ offer_ids = catalog

C6_Pagination == <>(pc = "download") /\ [](C6_Returned)

\* The long catalog was returned after more than one page.
C6_Witness ==
    /\ pc = "download"
    /\ looped
    /\ Len(offer_ids) = BulkLen

(***************************************************************************)
(* C2: the end-to-end scenario of the spec (the claim as stated): catalog  *)
(* ["A","B"], one row {A, ">10", "1'000.00"}; stock updates A:100, B:0     *)
(* and one price update for A with price "1000" are dispatched.            *)
(***************************************************************************)
C2_EndToEnd ==
    (/\ pc = "done"
     /\ input_ids = << <<"A">>, <<"B">> >>
     /\ watch_remnants = << [Kod |-> Sv(<<"A">>),
                            Kolichestvo |-> Sv(<<">", "1", "0">>),
                            Tsena |-> PriceA] >>)
    => /\ Payloads(attempts, "stocks") =
              << [offer_id |-> <<"A">>, stock |-> 100],
                 [offer_id |-> <<"B">>, stock |-> 0] >>
       /\ Payloads(attempts, "prices") =
              << [auto_action_enabled |-> "UNKNOWN",
                  currency_code |-> "RUB",
                  offer_id |-> <<"A">>,
                  old_price |-> "0",
                  price |-> <<"1", "0", "0", "0">>] >>

(***************************************************************************)
(* C8: in a run of main the batches are submitted one after another, all   *)
(* stock batches before any price batch, each exactly once; once a call    *)
(* fails nothing more is submitted, what was accepted stays accepted, and  *)
(* the run ends with a message printed.                                    *)
(***************************************************************************)
C8_Order ==
    /\ attempts = CallsOf("stocks") \o CallsOf("prices")
    /\ \A k \in DOMAIN CallsOf("stocks") :
          /\ CallsOf("stocks")[k].batch = k
          /\ k <= Len(StockBatches)
          /\ CallsOf("stocks")[k].payload = StockBatches[k]
    /\ \A k \in DOMAIN CallsOf("prices") :
          /\ CallsOf("prices")[k].batch = k
          /\ k <= Len(PriceBatches)
          /\ CallsOf("prices")[k].payload = PriceBatches[k]
    /\ CallsOf("prices") # <<>> => Len(CallsOf("stocks")) = Len(StockBatches)
    /\ pc = "done" =>
          /\ Len(CallsOf("stocks")) = Len(StockBatches)
          /\ Len(CallsOf("prices")) = Len(PriceBatches)
          /\ applied = attempts
          /\ printed = ""
    /\ pc = "failed" =>
          /\ printed # ""
          /\ applied \in {attempts, SubSeq(attempts, 1, Len(attempts) - 1)}
    /\ pc \notin {"done", "failed"} => applied = attempts /\ printed = ""

C8_AfterFailure ==
    /\ pc = "failed" => UNCHANGED vars
    /\ pc = "done" => UNCHANGED vars
    /\ IsPrefix(attempts, attempts') /\ Len(attempts') <= Len(attempts) + 1
    /\ IsPrefix(applied, applied')

C8_Batches == [](C8_Order) /\ [][C8_AfterFailure]_vars

\* The first stock batch was accepted, the second failed, the third was
\* never sent.
C8_Witness ==
    /\ pc = "failed"
    /\ Len(applied) = 1
    /\ Len(attempts) = 2
    /\ Len(StockBatches) = 3

(***************************************************************************)
(* C10: main gives create_prices the list create_stocks has consumed: for  *)
(* pairwise distinct catalog ids the list then holds no id of any remnant  *)
(* row, the price list is empty and update_price is never called.          *)
(***************************************************************************)
C10_NoPriceUpdate ==
    Distinct(input_ids) =>
        /\ CallsOf("prices") = <<>>
        /\ pc \in {"update_stocks", "update_price", "done"} =>
              Range(RowIds) \cap Range(offer_ids) = {}
        /\ pc \in {"update_price", "done"} => prices = <<>>

\* A run ended normally although a row with a string price was matched.
C10_Witness ==
    /\ pc = "done"
    /\ Distinct(input_ids)
    /\ \E k \in DOMAIN watch_remnants :
          /\ RowIds[k] \in Range(input_ids)
          /\ watch_remnants[k].Tsena = PriceA
    /\ attempts # <<>>

====
